---------------------------- MODULE Spec2Model ----------------------------
(***************************************************************************)
(* tvtccal: fetch the club calendar page, extract the workouts of the      *)
(* month's table and render them as an iCalendar file (src/main.go).       *)
(* Strings are TLA+ strings, instants are minutes since the Unix epoch     *)
(* (every instant the program builds has zero seconds).                    *)
(***************************************************************************)
EXTENDS Integers, Sequences, FiniteSets, TLC

(***************************************************************************)
(* strings / strconv                                                       *)
(***************************************************************************)

Char(s, i) == SubSeq(s, i, i)

\* unicode.IsSpace on the Latin-1 range, the white space strings.TrimSpace
\* cuts: tab, line feed, vertical tab, form feed, carriage return, space,
\* U+0085 (next line) and U+00A0 (no-break space); the vertical tab, U+0085
\* and U+00A0 stand in the set as the characters themselves
IsSpace(c) == c \in {"\t", "\n", "", "\f", "\r", " ", "", " "}

\* the string without its leading white space
TrimLeft(s) ==
    LET keep == {i \in 1..Len(s) : ~IsSpace(Char(s, i))}
    IN  IF keep = {} THEN ""
        ELSE SubSeq(s, CHOOSE i \in keep : \A j \in keep : i <= j, Len(s))

\* the string without its trailing white space
TrimRight(s) ==
    LET keep == {i \in 1..Len(s) : ~IsSpace(Char(s, i))}
    IN  IF keep = {} THEN ""
        ELSE SubSeq(s, 1, CHOOSE i \in keep : \A j \in keep : i >= j)

\* strings.TrimSpace
TrimSpace(s) == TrimRight(TrimLeft(s))

\* index of the first occurrence of the one-character separator at or after
\* i, 0 if none
IndexFrom(s, sep, i) ==
    LET at == {j \in i..Len(s) : Char(s, j) = sep}
    IN  IF at = {} THEN 0 ELSE CHOOSE j \in at : \A k \in at : j <= k

\* strings.Split(s, sep) for a one-character sep: always at least one part
RECURSIVE Split(_, _)
Split(s, sep) ==
    LET i == IndexFrom(s, sep, 1)
    IN  IF i = 0 THEN << s >>
        ELSE << SubSeq(s, 1, i - 1) >> \o Split(SubSeq(s, i + 1, Len(s)), sep)

\* strings.Join
RECURSIVE Join(_, _)
Join(parts, sep) ==
    IF Len(parts) = 0 THEN ""
    ELSE IF Len(parts) = 1 THEN parts[1]
    ELSE parts[1] \o sep \o Join(Tail(parts), sep)

Digits == << "0", "1", "2", "3", "4", "5", "6", "7", "8", "9" >>

IsDigit(c) == \E d \in 1..10 : Digits[d] = c

DigitVal(c) == (CHOOSE d \in 1..10 : Digits[d] = c) - 1

AllDigits(s) == \A i \in 1..Len(s) : IsDigit(Char(s, i))

RECURSIVE DigitsVal(_, _)
DigitsVal(s, acc) ==
    IF Len(s) = 0 THEN acc
    ELSE DigitsVal(Tail(s), acc * 10 + DigitVal(Char(s, 1)))

\* strconv.Atoi: optional sign, then one or more decimal digits
Atoi(s) ==
    LET signed == Len(s) > 0 /\ Char(s, 1) \in {"+", "-"}
        body   == IF signed THEN Tail(s) ELSE s
    IN  IF Len(body) = 0 \/ ~AllDigits(body)
        THEN [ok |-> FALSE, val |-> 0]
        ELSE [ok  |-> TRUE,
              val |-> IF signed /\ Char(s, 1) = "-"
                      THEN 0 - DigitsVal(body, 0)
                      ELSE DigitsVal(body, 0)]

(***************************************************************************)
(* time: the proleptic Gregorian calendar and America/Los_Angeles          *)
(***************************************************************************)

MinutesPerHour == 60
MinutesPerDay == 24 * MinutesPerHour

\* days since 1970-01-01 of a civil date; day may lie outside the month
\* (time.Date normalises by plain addition), month is 1..12
DaysFromCivil(y, m, d) ==
    LET yy  == IF m <= 2 THEN y - 1 ELSE y
        era == yy \div 400
        yoe == yy - era * 400
        mp  == IF m > 2 THEN m - 3 ELSE m + 9
        doy == (153 * mp + 2) \div 5 + d - 1
        doe == yoe * 365 + yoe \div 4 - yoe \div 100 + doy
    IN  era * 146097 + doe - 719468

\* the civil date of a day number, computed in steps: the day of the
\* 400-year era, the year of the era, the day of the year counted from
\* March 1, the month counted from March
CivilOfMonth(era, yoe, doy, mp) ==
    [year  |-> yoe + era * 400 + (IF mp < 10 THEN 0 ELSE 1),
     month |-> IF mp < 10 THEN mp + 3 ELSE mp - 9,
     day   |-> doy - (153 * mp + 2) \div 5 + 1]

CivilOfYearDay(era, yoe, doy) ==
    CivilOfMonth(era, yoe, doy, (5 * doy + 2) \div 153)

CivilOfEraYear(era, doe, yoe) ==
    CivilOfYearDay(era, yoe, doe - (365 * yoe + yoe \div 4 - yoe \div 100))

CivilOfEraDay(era, doe) ==
    CivilOfEraYear(era, doe,
        (doe - doe \div 1460 + doe \div 36524 - doe \div 146096) \div 365)

CivilFromDays(z) ==
    CivilOfEraDay((z + 719468) \div 146097, (z + 719468) % 146097)

\* 0 = Sunday; 1970-01-01 was a Thursday
Weekday(days) == (days + 4) % 7

\* the first Sunday on or after a day number
SundayOnOrAfter(days) == days + ((7 - Weekday(days)) % 7)

\* UTC offsets of the zone, in minutes
PSTOffset == 0 - 8 * MinutesPerHour
PDTOffset == 0 - 7 * MinutesPerHour

\* daylight time starts on the second Sunday of March at 02:00 PST
DSTStart(y) ==
    (SundayOnOrAfter(DaysFromCivil(y, 3, 1)) + 7) * MinutesPerDay
        + 2 * MinutesPerHour - PSTOffset

\* and ends on the first Sunday of November at 02:00 PDT
DSTEnd(y) ==
    SundayOnOrAfter(DaysFromCivil(y, 11, 1)) * MinutesPerDay
        + 2 * MinutesPerHour - PDTOffset

\* the zone period holding a UTC instant of the UTC year y
LookupInYear(t, y) ==
    IF t < DSTStart(y)
    THEN [offset |-> PSTOffset, start |-> DSTEnd(y - 1), end |-> DSTStart(y)]
    ELSE IF t < DSTEnd(y)
    THEN [offset |-> PDTOffset, start |-> DSTStart(y), end |-> DSTEnd(y)]
    ELSE [offset |-> PSTOffset, start |-> DSTEnd(y), end |-> DSTStart(y + 1)]

\* Location.lookup: the zone period holding a UTC instant
Lookup(t) == LookupInYear(t, CivilFromDays(t \div MinutesPerDay).year)

\* a civil date and the minute of the day as one record
FieldsOf(c, rem) ==
    [year |-> c.year, month |-> c.month, day |-> c.day,
     hour |-> rem \div MinutesPerHour, min |-> rem % MinutesPerHour]

\* year, month, day, hour, minute of minutes counted from 1970-01-01T00:00
Fields(m) == FieldsOf(CivilFromDays(m \div MinutesPerDay), m % MinutesPerDay)

\* t.UTC(): the fields of an instant read in UTC
UTCFields(t) == Fields(t)

\* the fields of an instant read in Location (base.Year(), base.Month(), ...)
LocalFields(t) == Fields(t + Lookup(t).offset)

\* the offset time.Date settles on: the guessed period's, unless the instant
\* it gives lies outside that period, and then the offset in force there
SettleOffset(utc, guess) ==
    IF utc < guess.start \/ utc >= guess.end
    THEN Lookup(utc).offset
    ELSE guess.offset

\* the instant of a wall clock given as minutes since 1970-01-01T00:00,
\* with the zone period guessed by reading the wall clock as UTC
DateOfWallClock(unix, guess) ==
    unix - SettleOffset(unix - guess.offset, guess)

\* the minutes since 1970-01-01T00:00 of a wall clock whose fields may lie
\* outside their ranges: time.Date's normalisation
WallClock(year, month, day, hour, min) ==
    (DaysFromCivil(year + (month - 1) \div 12, ((month - 1) % 12) + 1, 1)
         + day - 1) * MinutesPerDay
        + hour * MinutesPerHour + min

\* the wall clock's instant
DateAt(unix) == DateOfWallClock(unix, Lookup(unix))

\* time.Date(year, month, day, hour, min, 0, 0, Location)
Date(year, month, day, hour, min) ==
    DateAt(WallClock(year, month, day, hour, min))

\* decimal digits of n >= 0, left-padded with zeros to width w
RECURSIVE Pad(_, _)
Pad(n, w) ==
    IF w = 0 THEN "" ELSE Pad(n \div 10, w - 1) \o Digits[(n % 10) + 1]

\* the layout "20060102T150405Z" applied to fields with zero seconds
FormatFields(f) ==
    Pad(f.year, 4) \o Pad(f.month, 2) \o Pad(f.day, 2) \o "T"
        \o Pad(f.hour, 2) \o Pad(f.min, 2) \o Pad(0, 2) \o "Z"

\* t.UTC().Format(ICalTimeFormat)
FormatICal(t) == FormatFields(UTCFields(t))

(***************************************************************************)
(* the extractor's pure parts                                              *)
(***************************************************************************)

\* time.Month(i).String()
MonthNames ==
    << "January", "February", "March", "April", "May", "June", "July",
       "August", "September", "October", "November", "December" >>

December == 12
January == 1

\* the bound of parseMonth's loop: for i := 1; i < 12; i++
MonthLoopEnd == 12

\* parseMonth on the caption's text: the month, or ok = FALSE for the fatal
\* "invalid month"
ParseMonth(val) ==
    LET month == TrimSpace(Split(val, " ")[1])
        hits  == {m \in 1..(MonthLoopEnd - 1) : MonthNames[m] = month}
    IN  IF hits = {}
        THEN [ok |-> FALSE, month |-> January]
        ELSE [ok |-> TRUE, month |-> CHOOSE m \in hits : TRUE]

\* parseCalendar's year: the wall-clock year, one less for a December page
\* read in January
ResolveYear(month, nowYear, nowMonth) ==
    IF month = December /\ nowMonth = January THEN nowYear - 1 ELSE nowYear

\* parseDayOfMonth on the first cell's text: the last space-separated token
\* of the trimmed text as an integer, or ok = FALSE for "failed to parse day"
ParseDayOfMonth(val) ==
    LET parts == Split(TrimSpace(val), " ")
    IN  Atoi(parts[Len(parts)])

\* the lines one workout takes
BlockLines == 10

\* a loop that asks for no more lines than it takes
MinLinesIsBlockLines == BlockLines

\* the lines the loop asks for: for len(lines) >= 11
MinLines == 11

\* a workout lasts 90 minutes
WorkoutMinutes == 90

\* the hours added for PM
PMHours == 12

\* time.Date with the date of the fields b
DateOn(b, hour, min) == Date(b.year, b.month, b.day, hour, min)

\* a start built by adding the time of day to the cursor
StartInstantRelative(base, hour, min) ==
    base + hour * MinutesPerHour + min

\* start := time.Date(base.Year(), base.Month(), base.Day(), hour, min, ...)
StartInstant(base, hour, min) == DateOn(LocalFields(base), hour, min)

\* what a malformed block gives
NoWorkout == [ok |-> FALSE, w |-> << >>]

\* the Workout built from a block's lines and its start
BuildWorkout(lines, start) ==
    [ok |-> TRUE,
     w  |-> [Summary  |-> TrimSpace(lines[2 + 1]),
             Location |-> TrimSpace(Join([k \in 1..3 |->
                              TrimSpace(lines[3 + 2 * (k - 1) + 1])], ", ")),
             Start    |-> FormatICal(start),
             End      |-> FormatICal(start + WorkoutMinutes)]]

\* the block's workout once hour and minute went through strconv.Atoi
ParseHourMin(base, lines, meridiem, hour, min) ==
    IF ~hour.ok \/ ~min.ok THEN NoWorkout
    ELSE IF meridiem = "PM"
    THEN BuildWorkout(lines, StartInstant(base, hour.val + PMHours, min.val))
    ELSE IF meridiem # "AM" THEN NoWorkout
    ELSE BuildWorkout(lines, StartInstant(base, hour.val, min.val))

\* the block's workout once the clock token is split on ":"
ParseClock(base, lines, meridiem, hourmins) ==
    IF Len(hourmins) # 2 THEN NoWorkout
    ELSE ParseHourMin(base, lines, meridiem, Atoi(hourmins[1]), Atoi(hourmins[2]))

\* the block's workout once the time line is split on " "
ParseTime(base, lines, parts) ==
    IF Len(parts) # 2 THEN NoWorkout
    ELSE ParseClock(base, lines, parts[2], Split(parts[1], ":"))

\* one iteration of parseWorkouts' loop on lines that hold at least MinLines:
\* the workout of the first block, or ok = FALSE when its time is malformed
ParseBlock(base, lines) ==
    ParseTime(base, lines, Split(TrimSpace(lines[9 + 1]), " "))

\* parseWorkouts' loop from `lines` with `acc` collected after `iters`
\* iterations: the workouts returned, the lines left, the iterations run
RECURSIVE ParseWorkoutsLoop(_, _, _, _)

\* a loop that stops at a malformed block and keeps what it has
LoopStepKeepsPartial(base, lines, acc, iters, r) ==
    IF ~r.ok
    THEN [ws |-> acc, rest |-> lines, iters |-> iters, ok |-> FALSE]
    ELSE ParseWorkoutsLoop(base, SubSeq(lines, BlockLines + 1, Len(lines)),
                           Append(acc, r.w), iters + 1)

\* the loop's body once the block is parsed
LoopStep(base, lines, acc, iters, r) ==
    IF ~r.ok
    THEN [ws |-> << >>, rest |-> lines, iters |-> iters, ok |-> FALSE]
    ELSE ParseWorkoutsLoop(base, SubSeq(lines, BlockLines + 1, Len(lines)),
                           Append(acc, r.w), iters + 1)

ParseWorkoutsLoop(base, lines, acc, iters) ==
    IF Len(lines) >= MinLines
    THEN LoopStep(base, lines, acc, iters, ParseBlock(base, lines))
    ELSE [ws |-> acc, rest |-> lines, iters |-> iters, ok |-> TRUE]

\* parseWorkouts(base, n) on the cell's text
ParseWorkoutsRun(base, text) ==
    ParseWorkoutsLoop(base, Split(text, "\n"), << >>, 0)

ParseWorkouts(base, text) == ParseWorkoutsRun(base, text).ws

\* *base = base.Add(24 * time.Hour)
AdvanceCursor(base) == base + 24 * MinutesPerHour

\* an alternation that takes the even rows
IsEvenRow(i) == i % 2 = 0

\* parseCalendar: if i%2 == 1 the row holds workouts
IsWorkoutRow(i) == i % 2 = 1

(***************************************************************************)
(* the inputs the model draws from                                         *)
(***************************************************************************)

\* table rows the page may hold, day cells read over one run, lines of the
\* longest cell, blocks of the cells with a malformed time, and the cells a
\* cursor has passed before a cell is parsed on its own
MaxRows == 4
MaxCells == 3
MaxLines == 31
MaxBlocks == 3
MaxAdvance == 1

\* the wall-clock year of the run
NowYear == 2024

\* xmlpath finds no such node
NoNode == "<none>"

\* captions of the pages of a full run
Captions ==
    { "June 2024 Calendar", "\nMarch 2024", "November 2024",
      "December 2024", "Smarch 2024", NoNode }

\* captions for month resolution on its own
AllCaptions ==
    { MonthNames[m] \o " 2024" : m \in 1..12 }
        \cup { "december 2024", "DECEMBER 2024", " June 2024", "June", "Jun 2024",
               "", "2024 June", "Juneteenth 2024", NoNode }

\* the first cell of row 0
DayCells == { "Sun 2", "\n\f Sat 9  \n", "30", "Sun", "" , NoNode }

\* line p (1..BlockLines) of a workout block whose time field is `time`
LineAt(p, time) ==
    CASE p = 3 -> "  Swim Practice "
      [] p = 4 -> " 1 Pool Rd"
      [] p = 6 -> " Livermore"
      [] p = 8 -> " CA 94550 "
      [] p = 10 -> time
      [] OTHER -> ""

\* the text of a cell of n lines whose k-th block has the time field times[k]
CellOf(times, n) ==
    Join([i \in 1..n |->
             LineAt(((i - 1) % BlockLines) + 1, times[((i - 1) \div BlockLines) + 1])],
         "\n")

GoodTime == "\f 6:00 AM "

\* time fields parseWorkouts rejects, one for each way of being malformed
BadTimes ==
    { "", "6:00", "6:00 AM PST", "6:00  AM", "600 AM", "6:00:00 AM",
      "six:00 AM", "6:xx AM", ":00 AM", "6: PM", "6:00 am", "6:00 XM",
      "6.5:00 AM" }

\* well-formed time fields with the numbers they spell
HourTokens ==
    { << "0", 0 >>, << "1", 1 >>, << "2", 2 >>, << "6", 6 >>, << "09", 9 >>,
      << "9", 9 >>, << "11", 11 >>, << "12", 12 >>, << "13", 13 >>,
      << "-1", 0 - 1 >>, << "+3", 3 >> }

MinuteTokens ==
    { << "00", 0 >>, << "5", 5 >>, << "30", 30 >>, << "59", 59 >>,
      << "60", 60 >>, << "-30", 0 - 30 >> }

TimeTable ==
    { [text |-> h[1] \o ":" \o m[1] \o " " \o mer,
       hour |-> h[2], min |-> m[2], mer |-> mer] :
          h \in HourTokens, m \in MinuteTokens, mer \in {"AM", "PM"} }

\* cells of every length up to MaxLines with well-formed blocks only
GoodCells ==
    { CellOf([k \in 1..(MaxLines \div BlockLines + 1) |-> GoodTime], n) :
          n \in 1..MaxLines }

\* cells of MaxBlocks blocks, with and without a trailing line, one block
\* of which has a malformed time: the text, the block, the number of lines
BadCellTable ==
    { [text  |-> CellOf([k \in 1..(MaxBlocks + 1) |->
                            IF k = pos THEN bad ELSE GoodTime],
                        MaxBlocks * BlockLines + extra),
       pos   |-> pos,
       lines |-> MaxBlocks * BlockLines + extra] :
          pos \in 1..MaxBlocks, bad \in BadTimes, extra \in {0, 1} }

BadCells == { c.text : c \in BadCellTable }

\* cells of one block for every entry of the time table
TimedCellTable ==
    { [text |-> CellOf(<< tf.text, "" >>, BlockLines + 1), time |-> tf] :
          tf \in TimeTable }

TimedCells == { c.text : c \in TimedCellTable }

AllCells == GoodCells \cup BadCells \cup TimedCells

\* the cells of a full run: empty or one workout,
WellFormedRunCells ==
    { "", CellOf(<< GoodTime, "" >>, BlockLines + 1) }

\* or one malformed block, or a good block followed by a malformed one
MalformedRunCells ==
    { CellOf(<< "6:00", "" >>, BlockLines + 1),
      CellOf(<< "7:15 PM", "noon", "" >>, 2 * BlockLines + 1) }

RunCells == WellFormedRunCells \cup MalformedRunCells

\* the (month, day of month) the cursor starts from when a cell is parsed
\* on its own: plain days, the days around both transitions, month ends
StartDays ==
    { << 6, 15 >>, << 3, 9 >>, << 3, 10 >>, << 11, 2 >>, << 11, 3 >>,
      << 2, 28 >>, << 11, 30 >>, << 1, 1 >> }

(***************************************************************************)
(* the run                                                                 *)
(***************************************************************************)

VARIABLES
    pc,           \* where main is
    fatalMsg,     \* what log.Fatal reported, "" while running
    stages,       \* the stages completed, in order
    caption,      \* the text of the table's caption, or NoNode
    nowYear,      \* time.Now().Year()
    nowMonth,     \* time.Now().Month()
    month,        \* parseCalendar's month
    year,         \* parseCalendar's year
    dayText,      \* the text of row 0's first cell, or NoNode
    day,          \* the day of month parsed from row 0
    i,            \* parseCalendar's row index
    base,         \* the date cursor
    rowWorkouts,  \* parseWorkoutRow's workouts
    workouts,     \* parseCalendar's workouts
    outFile,      \* the output file
    cellLog       \* every cell parsed so far: row, cursor, text, result

vars ==
    << pc, fatalMsg, stages, caption, nowYear, nowMonth, month, year, dayText,
       day, i, base, rowWorkouts, workouts, outFile, cellLog >>

Absent == [state |-> "absent", events |-> << >>]
Old == [state |-> "old", events |-> << >>]

Init ==
    /\ pc = "acquire"
    /\ fatalMsg = ""
    /\ stages = << >>
    /\ caption \in Captions
    /\ nowYear = NowYear
    /\ nowMonth = January
    /\ month = 0
    /\ year = 0
    /\ dayText \in DayCells
    /\ day = 0
    /\ i = 0
    /\ base = 0
    /\ rowWorkouts = << >>
    /\ workouts = << >>
    /\ outFile \in {Absent, Old}
    /\ cellLog = << >>

Fatal(msg) ==
    /\ pc' = "fatal"
    /\ fatalMsg' = msg

\* an acquisition that has the output file created before the page is read
AcquireCreatingOutput ==
    /\ pc = "acquire"
    /\ \E r \in {"file", "open error", "http 200", "http error", "http status"} :
          IF r \in {"file", "http 200"}
          THEN /\ pc' = "normalize"
               /\ stages' = Append(stages, "acquire")
               /\ UNCHANGED fatalMsg
          ELSE /\ Fatal(r)
               /\ UNCHANGED stages
    /\ outFile' = [state |-> "truncated", events |-> << >>]
    /\ UNCHANGED << caption, nowYear, nowMonth, month, year, dayText, day, i,
                    base, rowWorkouts, workouts, cellLog >>

\* main: os.Open(*testFile), or http.Get(CalendarURL) and the status check
Acquire ==
    /\ pc = "acquire"
    /\ \E r \in {"file", "open error", "http 200", "http error", "http status"} :
          IF r \in {"file", "http 200"}
          THEN /\ pc' = "normalize"
               /\ stages' = Append(stages, "acquire")
               /\ UNCHANGED fatalMsg
          ELSE /\ Fatal(r)
               /\ UNCHANGED stages
    /\ UNCHANGED << caption, nowYear, nowMonth, month, year, dayText, day, i, base,
                    rowWorkouts, workouts, outFile, cellLog >>

\* fixHTML: html.Parse, html.Render, xmlpath.ParseHTML
Normalize ==
    /\ pc = "normalize"
    /\ \E r \in {"ok", "html parse error", "xmlpath parse error"} :
          IF r = "ok"
          THEN /\ pc' = "extract"
               /\ stages' = Append(stages, "normalize")
               /\ UNCHANGED fatalMsg
          ELSE /\ Fatal(r)
               /\ UNCHANGED stages
    /\ UNCHANGED << caption, nowYear, nowMonth, month, year, dayText, day, i, base,
                    rowWorkouts, workouts, outFile, cellLog >>

\* parseCalendar up to the row loop: parseMonth, the year, time.LoadLocation
ParseCalendarHead ==
    /\ pc = "extract"
    /\ IF caption = NoNode
       THEN /\ Fatal("failed to find month")
            /\ UNCHANGED << month, year >>
       ELSE LET m == ParseMonth(caption)
            IN  IF ~m.ok
                THEN /\ Fatal("invalid month")
                     /\ UNCHANGED << month, year >>
                ELSE /\ month' = m.month
                     /\ year' = ResolveYear(m.month, nowYear, nowMonth)
                     /\ \E loaded \in BOOLEAN :
                           IF loaded
                           THEN pc' = "rows" /\ UNCHANGED fatalMsg
                           ELSE Fatal("load location")
    /\ UNCHANGED << stages, caption, nowYear, nowMonth, dayText, day, i, base,
                    rowWorkouts, workouts, outFile, cellLog >>

\* the row loop at i = 0: parseDayOfMonth, the cursor's start, and the
\* alternation's test of row 0
RowZero ==
    /\ pc = "rows"
    /\ i = 0
    /\ i < MaxRows
    /\ IF dayText = NoNode
       THEN /\ Fatal("failed to find day")
            /\ UNCHANGED << dayText, day, base, i, rowWorkouts >>
       ELSE \E d \in {ParseDayOfMonth(dayText)} :
               IF ~d.ok
               THEN /\ Fatal("failed to parse day")
                    /\ UNCHANGED << dayText, day, base, i, rowWorkouts >>
               ELSE /\ day' = d.val
                    /\ base' = Date(year, month, d.val, 0, 0)
                    /\ UNCHANGED fatalMsg
                    /\ IF IsWorkoutRow(i)
                       THEN /\ pc' = "cells"
                            /\ rowWorkouts' = << >>
                            /\ UNCHANGED i
                       ELSE /\ i' = i + 1
                            /\ UNCHANGED << pc, rowWorkouts >>
    /\ UNCHANGED << stages, caption, nowYear, nowMonth, month, year, dayText,
                    workouts, outFile, cellLog >>

\* the row loop at a row the alternation skips
SkipRow ==
    /\ pc = "rows"
    /\ i > 0
    /\ i < MaxRows
    /\ ~IsWorkoutRow(i)
    /\ i' = i + 1
    /\ UNCHANGED << pc, fatalMsg, stages, caption, nowYear, nowMonth, month,
                    year, dayText, day, base, rowWorkouts, workouts, outFile, cellLog >>

\* the row loop at a workout row: parseWorkoutRow starts
EnterWorkoutRow ==
    /\ pc = "rows"
    /\ i < MaxRows
    /\ IsWorkoutRow(i)
    /\ pc' = "cells"
    /\ rowWorkouts' = << >>
    /\ UNCHANGED << fatalMsg, stages, caption, nowYear, nowMonth, month, year,
                    dayText, day, i, base, workouts, outFile, cellLog >>

\* a cell loop in which a malformed time ends the run
CellFromFatal(cells) ==
    /\ pc = "cells"
    /\ \E text \in cells :
          \E res \in {ParseWorkoutsRun(base, text)} :
             /\ rowWorkouts' = rowWorkouts \o res.ws
             /\ cellLog' = Append(cellLog,
                    [row |-> i, base |-> base, text |-> text, res |-> res])
             /\ IF res.ok
                THEN UNCHANGED << pc, fatalMsg >>
                ELSE Fatal("malformed time")
    /\ base' = AdvanceCursor(base)
    /\ UNCHANGED << stages, caption, nowYear, nowMonth, month, year, dayText,
                    day, i, workouts, outFile >>

\* one iteration of parseWorkoutRow's loop on a cell with text from `cells`
CellFrom(cells) ==
    /\ pc = "cells"
    /\ \E text \in cells :
          \E res \in {ParseWorkoutsRun(base, text)} :
             /\ rowWorkouts' = rowWorkouts \o res.ws
             /\ cellLog' = Append(cellLog,
                    [row |-> i, base |-> base, text |-> text, res |-> res])
    /\ base' = AdvanceCursor(base)
    /\ UNCHANGED << pc, fatalMsg, stages, caption, nowYear, nowMonth, month,
                    year, dayText, day, i, workouts, outFile >>

Cell ==
    /\ Len(cellLog) < MaxCells
    /\ CellFrom(RunCells)

\* parseWorkoutRow returns: the row's workouts are appended
EndRow ==
    /\ pc = "cells"
    /\ workouts' = workouts \o rowWorkouts
    /\ rowWorkouts' = << >>
    /\ i' = i + 1
    /\ pc' = "rows"
    /\ UNCHANGED << fatalMsg, stages, caption, nowYear, nowMonth, month, year,
                    dayText, day, base, outFile, cellLog >>

\* the row loop ends: parseCalendar returns the workouts
EndOfRows ==
    /\ pc = "rows"
    /\ pc' = "render"
    /\ stages' = Append(stages, "extract")
    /\ UNCHANGED << fatalMsg, caption, nowYear, nowMonth, month, year, dayText, day, i,
                    base, rowWorkouts, workouts, outFile, cellLog >>

\* writeCalendar: os.Create truncates the file, the template writes the events
Render ==
    /\ pc = "render"
    /\ \E r \in {"ok", "create error", "execute error"} :
          CASE r = "ok" ->
                  /\ outFile' = [state |-> "written", events |-> workouts]
                  /\ pc' = "done"
                  /\ stages' = Append(stages, "render")
                  /\ UNCHANGED fatalMsg
            [] r = "create error" ->
                  /\ Fatal(r)
                  /\ UNCHANGED << outFile, stages >>
            [] r = "execute error" ->
                  /\ Fatal(r)
                  /\ outFile' = [state |-> "truncated", events |-> << >>]
                  /\ UNCHANGED stages
    /\ UNCHANGED << caption, nowYear, nowMonth, month, year, dayText, day, i, base,
                    rowWorkouts, workouts, cellLog >>

Next ==
    \/ Acquire
    \/ Normalize
    \/ ParseCalendarHead
    \/ RowZero
    \/ SkipRow
    \/ EnterWorkoutRow
    \/ Cell
    \/ EndRow
    \/ EndOfRows
    \/ Render

Spec == Init /\ [][Next]_vars

(***************************************************************************)
(* month and year resolution on its own: every caption, every wall-clock   *)
(* month, from the state main is in when it calls parseCalendar            *)
(***************************************************************************)

InitMonth ==
    /\ pc = "extract"
    /\ fatalMsg = ""
    /\ stages = << "acquire", "normalize" >>
    /\ caption \in AllCaptions
    /\ nowYear = NowYear
    /\ nowMonth \in 1..12
    /\ month = 0
    /\ year = 0
    /\ dayText = "Sun 2"
    /\ day = 0
    /\ i = 0
    /\ base = 0
    /\ rowWorkouts = << >>
    /\ workouts = << >>
    /\ outFile = Absent
    /\ cellLog = << >>

NextMonth == ParseCalendarHead

SpecMonth == InitMonth /\ [][NextMonth]_vars

(***************************************************************************)
(* parseWorkouts on its own: the first cell of workout row 3 of a page     *)
(* whose row 1 held `before` empty cells, for every cell text              *)
(***************************************************************************)

\* the cursor after n cells
RECURSIVE CursorAfter(_, _)
CursorAfter(start, n) ==
    IF n = 0 THEN start ELSE AdvanceCursor(CursorAfter(start, n - 1))

InitCell ==
    /\ pc = "cells"
    /\ fatalMsg = ""
    /\ stages = << "acquire", "normalize" >>
    /\ nowYear = NowYear
    /\ nowMonth = 6
    /\ year = NowYear
    /\ \E sd \in StartDays, before \in 0..MaxAdvance :
          /\ month = sd[1]
          /\ caption = MonthNames[sd[1]] \o " 2024"
          /\ day = sd[2]
          /\ dayText = Pad(sd[2], 2)
          /\ base = CursorAfter(Date(NowYear, sd[1], sd[2], 0, 0), before)
          /\ cellLog =
               [n \in 1..before |->
                   [row  |-> 1,
                    base |-> CursorAfter(Date(NowYear, sd[1], sd[2], 0, 0), n - 1),
                    text |-> "",
                    res  |-> ParseWorkoutsRun(0, "")]]
    /\ i = 3
    /\ rowWorkouts = << >>
    /\ workouts = << >>
    /\ outFile = Absent

\* the row's first cell
FirstCell ==
    /\ \A n \in DOMAIN cellLog : cellLog[n].row # i
    /\ CellFrom(AllCells)

NextCell == FirstCell

SpecCell == InitCell /\ [][NextCell]_vars

(***************************************************************************)
(* what the properties are stated with                                     *)
(***************************************************************************)

\* the instant a "YYYYMMDDTHHMMSSZ" string names
ParseICal(str) ==
    DaysFromCivil(DigitsVal(SubSeq(str, 1, 4), 0), DigitsVal(SubSeq(str, 5, 6), 0),
                  DigitsVal(SubSeq(str, 7, 8), 0)) * MinutesPerDay
        + DigitsVal(SubSeq(str, 10, 11), 0) * MinutesPerHour
        + DigitsVal(SubSeq(str, 12, 13), 0)

\* the calendar date of an instant in America/Los_Angeles, as a day number
LocalDay(t) == (t + Lookup(t).offset) \div MinutesPerDay

\* the number of lines of a text
LineCount(text) ==
    Cardinality({j \in 1..Len(text) : Char(text, j) = "\n"}) + 1

\* the month a caption's first space-delimited token names, 0 if none
NamedMonth(c) ==
    LET at    == {j \in 1..Len(c) : Char(c, j) = " "}
        token == IF at = {} THEN c
                 ELSE SubSeq(c, 1, (CHOOSE j \in at : \A k \in at : j <= k) - 1)
        named == {m \in 1..12 : MonthNames[m] = token}
    IN  IF named = {} THEN 0 ELSE CHOOSE m \in named : TRUE

\* the day of month each day cell spells, by hand
DayCellValue ==
    [c \in {"Sun 2", "\n\f Sat 9  \n", "30"} |->
        CASE c = "Sun 2" -> 2 [] c = "\n\f Sat 9  \n" -> 9 [] c = "30" -> 30]

\* the day number of the date row 0 names
StartDay == DaysFromCivil(year, month, 1) + day - 1

\* the entries of the log, and an entry's number of lines
LogIndex == DOMAIN cellLog

\* the workouts of a cell sequence's entries, in order
RECURSIVE Flatten(_)
Flatten(seqs) ==
    IF Len(seqs) = 0 THEN << >> ELSE Head(seqs) \o Flatten(Tail(seqs))

(***************************************************************************)
(* C1                                                                      *)
(***************************************************************************)

\* C1: once parseMonth has run on a caption, a caption whose first
\* space-delimited token is one of the twelve month names has given that
\* month's index without the fatal "invalid month", and every other caption
\* has ended the run in the fatal "invalid month".
C1_MonthResolution ==
    (pc # "extract" /\ caption # NoNode) =>
        IF NamedMonth(caption) # 0
        THEN fatalMsg # "invalid month" /\ month = NamedMonth(caption)
        ELSE pc = "fatal" /\ fatalMsg = "invalid month"

\* the part of C1 the code keeps: January to November resolve, captions
\* naming no month are fatal
C1_ElevenMonths ==
    (pc # "extract" /\ caption # NoNode /\ NamedMonth(caption) # December) =>
        IF NamedMonth(caption) # 0
        THEN fatalMsg # "invalid month" /\ month = NamedMonth(caption)
        ELSE pc = "fatal" /\ fatalMsg = "invalid month"

(***************************************************************************)
(* C6                                                                      *)
(***************************************************************************)

\* C6: once the year is resolved for a page naming month m read in
\* wall-clock month w, the year is the wall-clock year minus one for
\* m = December and w = January and the wall-clock year for every other
\* pair; the December page read in January does get a year.
C6_YearResolution ==
    /\ pc = "rows" =>
          year = IF month = 12 /\ nowMonth = 1 THEN nowYear - 1 ELSE nowYear
    /\ (pc # "extract" /\ NamedMonth(caption) = 12 /\ nowMonth = 1) =>
          (fatalMsg # "invalid month" /\ year = nowYear - 1)

\* the part of C6 the code keeps: the pairs parseMonth lets through
C6_ReachablePairs ==
    pc = "rows" =>
        /\ month \in 1..11
        /\ year = nowYear

(***************************************************************************)
(* C2                                                                      *)
(***************************************************************************)

\* C2: the k-th cell parsed (k = 0, 1, ...) is parsed with a cursor whose
\* calendar date in America/Los_Angeles is the date of row 0 plus k days.
C2_CellDayAnchoring ==
    \A n \in LogIndex : LocalDay(cellLog[n].base) = StartDay + (n - 1)

\* the part of C2 the code keeps: the cursor is 24 hours per cell later
C2_TwentyFourHours ==
    \A n \in LogIndex :
        cellLog[n].base = Date(year, month, day, 0, 0) + (n - 1) * 24 * 60

(***************************************************************************)
(* C7                                                                      *)
(***************************************************************************)

\* the cursor of the n-th cell of a page, every cell before it having
\* advanced it once
CursorOfCell(n) == Date(year, month, day, 0, 0) + (n - 1) * 24 * 60

\* what the n-th cell gives in the run where the malformed cells are empty
AsIfEmpty(n) ==
    IF cellLog[n].text \in MalformedRunCells
    THEN ParseWorkouts(CursorOfCell(n), "")
    ELSE ParseWorkouts(CursorOfCell(n), cellLog[n].text)

MalformedSeen == \E n \in LogIndex : cellLog[n].text \in MalformedRunCells

\* the workouts collected so far, those of the row being read included
Collected == IF pc = "cells" THEN workouts \o rowWorkouts ELSE workouts

\* C7: a malformed cell is not fatal; while the rows are read the workouts
\* collected are those of the run in which every malformed cell is empty,
\* and the cursor has advanced once for every cell, malformed or not; the
\* run can go on to the render stage, and the file it writes holds those
\* workouts.
C7_CellErrorLocality ==
    /\ pc \in {"rows", "cells"} =>
          /\ Collected = Flatten([n \in LogIndex |-> AsIfEmpty(n)])
          /\ i > 0 => base = CursorOfCell(Len(cellLog) + 1)
    /\ pc = "done" =>
          outFile = [state  |-> "written",
                     events |-> Flatten([n \in LogIndex |-> AsIfEmpty(n)])]
    /\ MalformedSeen =>
          /\ fatalMsg \in {"", "create error", "execute error"}
          /\ pc \in {"rows", "cells", "render", "done", "fatal"}
          /\ pc = "cells" => ENABLED EndRow
          /\ pc = "rows" => ENABLED EndOfRows
          /\ pc = "render" => ENABLED Render

\* a run with a malformed cell between two good ones is rendered with the
\* two good cells' workouts
C7_Witness ==
    /\ pc = "done"
    /\ Len(cellLog) = 3
    /\ cellLog[2].text \in MalformedRunCells
    /\ cellLog[2].res.ws = << >>
    /\ Len(cellLog[1].res.ws) = 1
    /\ Len(cellLog[3].res.ws) = 1
    /\ Len(outFile.events) = 2
    /\ cellLog[3].base = cellLog[1].base + 2 * 24 * 60

(***************************************************************************)
(* C8                                                                      *)
(***************************************************************************)

\* C8: the workout list grows and cells are read only at odd rows; the
\* cursor is set at row 0, to midnight in America/Los_Angeles of the year,
\* the month and the day row 0's first cell spells, and moves otherwise only
\* by 24 hours at a cell of an odd row; an even row after row 0 changes
\* nothing but the row index; each cell is read with the cursor the cell
\* before it left, across rows.
C8_RowAlternation ==
    [][ /\ workouts' # workouts => i % 2 = 1
        /\ cellLog' # cellLog =>
              /\ i % 2 = 1
              /\ cellLog' = Append(cellLog, cellLog'[Len(cellLog')])
              /\ cellLog'[Len(cellLog')].row = i
              /\ cellLog'[Len(cellLog')].base =
                    IF Len(cellLog) = 0
                    THEN Date(year, month, day, 0, 0)
                    ELSE cellLog[Len(cellLog)].base + 24 * 60
              /\ base' = cellLog'[Len(cellLog')].base + 24 * 60
        /\ (base' # base /\ cellLog' = cellLog) =>
              /\ i = 0
              /\ pc = "rows"
              /\ day' = DayCellValue[dayText]
              /\ LocalFields(base') =
                    FieldsOf(CivilFromDays(DaysFromCivil(year, month, 1) + day' - 1), 0)
        /\ (i % 2 = 0 /\ i > 0) =>
              UNCHANGED << base, workouts, rowWorkouts, cellLog, day >>
        /\ (i = 0 /\ pc = "rows" /\ pc' # "fatal") =>
              UNCHANGED << workouts, rowWorkouts, cellLog >>
      ]_vars

\* rows 1 and 3 both gave a workout, and row 3's first cell was read with
\* the cursor one day after row 1's last cell
C8_Witness ==
    /\ pc = "rows"
    /\ i = 4
    /\ Len(cellLog) = 2
    /\ cellLog[1].row = 1
    /\ cellLog[2].row = 3
    /\ cellLog[2].base = cellLog[1].base + 24 * 60
    /\ Len(workouts) = 2
    /\ day = 9

(***************************************************************************)
(* C10                                                                     *)
(***************************************************************************)

StageOrder == << "acquire", "normalize", "extract", "render" >>

\* C10: every step completes the next stage of acquire, normalize,
\* extract, render or none; the output file changes only in the render
\* step, after the three stages before it completed without a fatal
\* condition; a step into a fatal acquisition, normalization or extraction
\* error leaves the output file as it was.
C10_StageOrder ==
    [][ /\ stages' # stages =>
              /\ Len(stages) < Len(StageOrder)
              /\ stages' = Append(stages, StageOrder[Len(stages) + 1])
              /\ fatalMsg' = ""
        /\ outFile' # outFile =>
              /\ pc = "render"
              /\ stages = << "acquire", "normalize", "extract" >>
              /\ fatalMsg = ""
        /\ (pc' = "fatal" /\ pc # "render") =>
              /\ outFile' = outFile
              /\ outFile \in {Absent, Old}
        /\ pc = "fatal" => UNCHANGED vars
      ]_vars

\* a run that died on row 0's day cell with the old output file untouched
C10_Witness ==
    /\ pc = "fatal"
    /\ fatalMsg = "failed to parse day"
    /\ stages = << "acquire", "normalize" >>
    /\ outFile = Old

(***************************************************************************)
(* C3                                                                      *)
(***************************************************************************)

\* C3: a cell of L lines whose blocks are all well formed gives 0 workouts
\* for L <= 10 and (L - 1) \div 10 for L >= 11, one per iteration; each
\* iteration took the first 10 lines, and between 1 and 10 lines are left.
C3_BlockCount ==
    \A n \in LogIndex :
        cellLog[n].text \in GoodCells =>
            LET L   == LineCount(cellLog[n].text)
                res == cellLog[n].res
            IN  /\ Len(res.ws) = IF L <= 10 THEN 0 ELSE (L - 1) \div 10
                /\ res.iters = Len(res.ws)
                /\ Len(res.rest) = L - 10 * res.iters
                /\ Len(res.rest) \in 1..10
                /\ res.ok

\* a cell of 21 lines gave two workouts and left one line
C3_Witness ==
    \E n \in LogIndex :
        /\ cellLog[n].row = 3
        /\ cellLog[n].text \in GoodCells
        /\ LineCount(cellLog[n].text) = 21
        /\ Len(cellLog[n].res.ws) = 2
        /\ Len(cellLog[n].res.rest) = 1

(***************************************************************************)
(* C4                                                                      *)
(***************************************************************************)

\* C4: a cell whose loop reaches a block with a malformed time gives no
\* workout at all, and the loop stops at that block; a malformed block the
\* loop does not reach changes nothing.
C4_MalformedShortCircuit ==
    \A n \in LogIndex :
        \A c \in BadCellTable :
            c.text = cellLog[n].text =>
                IF c.pos <= (c.lines - 1) \div 10
                THEN /\ cellLog[n].res.ws = << >>
                     /\ cellLog[n].res.iters = c.pos - 1
                     /\ ~cellLog[n].res.ok
                ELSE Len(cellLog[n].res.ws) = (c.lines - 1) \div 10

\* two well-formed blocks, then a third with a lower-case meridiem: none
C4_Witness ==
    \E n \in LogIndex :
        \E c \in BadCellTable :
            /\ c.text = cellLog[n].text
            /\ c.pos = 3
            /\ c.lines = 31
            /\ Split(c.text, "\n")[30] = "6:00 am"
            /\ cellLog[n].res.iters = 2
            /\ cellLog[n].res.ws = << >>

(***************************************************************************)
(* C5                                                                      *)
(***************************************************************************)

\* the wall clock a time field names on the cursor's date, in minutes since
\* 1970-01-01T00:00: hour + 12 for PM, out-of-range values carried over
WallClockOf(b, tf) ==
    LocalDay(b) * MinutesPerDay
        + (tf.hour + IF tf.mer = "PM" THEN 12 ELSE 0) * 60 + tf.min

\* the wall clock an instant shows in America/Los_Angeles
LocalClock(t) == t + Lookup(t).offset

\* no instant shows this wall clock: the hour skipped at spring-forward
Skipped(wall) ==
    \A off \in {PSTOffset, PDTOffset} : LocalClock(wall - off) # wall

\* C5 as claimed: a cell of one well-formed block gives one workout whose
\* start shows, in America/Los_Angeles, the cursor's date at hour':minute,
\* hour' = hour + 12 for PM, and whose end is 90 minutes after its start.
C5_TimeDecoding ==
    \A n \in LogIndex :
        \A c \in TimedCellTable :
            c.text = cellLog[n].text =>
                LET ws == cellLog[n].res.ws
                IN  /\ Len(ws) = 1
                    /\ LocalClock(ParseICal(ws[1].Start))
                          = WallClockOf(cellLog[n].base, c.time)
                    /\ FormatICal(ParseICal(ws[1].Start)) = ws[1].Start
                    /\ ParseICal(ws[1].End) = ParseICal(ws[1].Start) + 90
                    /\ FormatICal(ParseICal(ws[1].End)) = ws[1].End

\* C5 amended: the same, except that for a wall clock in the hour skipped
\* at the spring-forward transition the start is that wall clock taken at
\* UTC-7, an instant that shows one hour less.
C5_TimeDecodingAmended ==
    \A n \in LogIndex :
        \A c \in TimedCellTable :
            c.text = cellLog[n].text =>
                LET ws   == cellLog[n].res.ws
                    wall == WallClockOf(cellLog[n].base, c.time)
                IN  /\ Len(ws) = 1
                    /\ IF Skipped(wall)
                       THEN /\ ParseICal(ws[1].Start) = wall - PDTOffset
                            /\ LocalClock(ParseICal(ws[1].Start)) = wall - 60
                       ELSE LocalClock(ParseICal(ws[1].Start)) = wall
                    /\ FormatICal(ParseICal(ws[1].Start)) = ws[1].Start
                    /\ ParseICal(ws[1].End) = ParseICal(ws[1].Start) + 90
                    /\ FormatICal(ParseICal(ws[1].End)) = ws[1].End

\* "9:30 PM" on 2024-06-15 starts at 21:30 PDT, 04:30 UTC the next day
C5_Witness ==
    \E n \in LogIndex :
        /\ cellLog[n].row = 3
        /\ cellLog[n].text \in TimedCells
        /\ Split(cellLog[n].text, "\n")[10] = "9:30 PM"
        /\ LocalFields(cellLog[n].base) =
              [year |-> 2024, month |-> 6, day |-> 15, hour |-> 0, min |-> 0]
        /\ cellLog[n].res.ws[1].Start = "20240616T043000Z"
        /\ cellLog[n].res.ws[1].End = "20240616T060000Z"

(***************************************************************************)
(* C9                                                                      *)
(***************************************************************************)

\* C9, for the clock times of a 12-hour clock alone (hour 1..12, minute
\* 0..59): the start of the workout lies, in America/Los_Angeles, on the
\* calendar day of the cell's cursor.
C9_StartOnCellDay ==
    \A n \in LogIndex :
        \A c \in TimedCellTable :
            (/\ c.text = cellLog[n].text
             /\ c.time.hour \in 1..12
             /\ c.time.min \in 0..59) =>
                \A k \in DOMAIN cellLog[n].res.ws :
                    LocalDay(ParseICal(cellLog[n].res.ws[k].Start))
                        = LocalDay(cellLog[n].base)

\* the part of C9 the code keeps: a start before noon, or after noon and
\* not in hour 12, lies on the cursor's day
C9_ExceptNoon ==
    \A n \in LogIndex :
        \A c \in TimedCellTable :
            (/\ c.text = cellLog[n].text
             /\ c.time.hour \in 1..12
             /\ c.time.min \in 0..59
             /\ ~(c.time.hour = 12 /\ c.time.mer = "PM")) =>
                \A k \in DOMAIN cellLog[n].res.ws :
                    LocalDay(ParseICal(cellLog[n].res.ws[k].Start))
                        = LocalDay(cellLog[n].base)

=============================================================================
